---------------------------- MODULE Spec2Model ----------------------------
(***************************************************************************)
(* Model of the knowledge-based Minesweeper agent of src/minesweeper.py:   *)
(* class Sentence, class MinesweeperAI and the part of class Minesweeper   *)
(* that supplies the observations (the mine layout and nearby_mines).      *)
(*                                                                         *)
(* A cell is a pair <<i, j>>.  A Sentence object is a record               *)
(* [cells, count].  Python lists of Sentence objects are modelled with     *)
(* object identity where the code depends on it: inside add_knowledge the  *)
(* agent is a record                                                       *)
(*     [heap  : sequence of Sentence values, indexed by object id,         *)
(*      know  : self.knowledge, a sequence of object ids,                  *)
(*      safes, mines : self.safes, self.mines]                             *)
(* so that a list that was rebound (clean_up) and the list still being     *)
(* iterated (make_inferences) share the objects they both hold.            *)
(***************************************************************************)
EXTENDS Integers, Sequences, FiniteSets, TLC

\* ----- bounds of the model ------------------------------------------------
\* boards of every height x width with at most MaxCells cells
MaxCells == 6
\* at most MaxMines mines on the board
MaxMines == 2
\* at most MaxCalls calls of the agent's public methods
MaxCalls == 3
\* the longer games: a DeepSide x DeepSide board and at most DeepCalls calls
DeepSide == 3
DeepCalls == 4

\* ----- program constants --------------------------------------------------
\* make_random_move scans range(8) x range(8)
RandomRange == 8

VARIABLES
    height,      \* MinesweeperAI.height
    width,       \* MinesweeperAI.width
    board,       \* Minesweeper.mines: the fixed mine layout
    moves_made,  \* MinesweeperAI.moves_made
    mines,       \* MinesweeperAI.mines
    safes,       \* MinesweeperAI.safes
    knowledge,   \* MinesweeperAI.knowledge, a sequence of Sentence values
    op,          \* the public method that ran last, with its arguments
    ret,         \* what make_safe_move / make_random_move returned
    trace,       \* what the last make_inferences pass did, one entry per iteration
    ncalls       \* number of calls of public methods so far

vars == <<height, width, board, moves_made, mines, safes, knowledge,
          op, ret, trace, ncalls>>

\* ----- cells and the board ------------------------------------------------
Grid(h, w) == (0 .. h - 1) \X (0 .. w - 1)

\* the cells within one row and column of cell, cell itself excluded,
\* in or out of the grid
Around(cell) ==
    { <<i, j>> : i \in (cell[1] - 1) .. (cell[1] + 1),
                 j \in (cell[2] - 1) .. (cell[2] + 1) } \ {cell}

InBounds(c, h, w) == 0 <= c[1] /\ c[1] < h /\ 0 <= c[2] /\ c[2] < w

\* Minesweeper.nearby_mines
nearby_mines(cell, h, w, b) ==
    Cardinality({ c \in Around(cell) : InBounds(c, h, w) /\ c \in b })

\* ----- class Sentence -----------------------------------------------------
Sentence(cells, count) == [cells |-> cells, count |-> count]

\* Sentence.__eq__
SentenceEq(a, b) == a.cells = b.cells /\ a.count = b.count

\* Sentence.known_mines / known_safes return self.cells or None
NoneValue == [some |-> FALSE, cells |-> {}]
SomeCells(s) == [some |-> TRUE, cells |-> s]

\* known_mines with the test "self.count > 0" for "len(self.cells) == self.count"
known_mines_of_positive(s) ==
    IF s.count > 0 THEN SomeCells(s.cells) ELSE NoneValue

known_mines(s) ==
    IF Cardinality(s.cells) = s.count THEN SomeCells(s.cells) ELSE NoneValue

\* known_safes with the test "len(self.cells) == 0" for "self.count == 0"
known_safes_of_empty(s) ==
    IF Cardinality(s.cells) = 0 THEN SomeCells(s.cells) ELSE NoneValue

known_safes(s) ==
    IF s.count = 0 THEN SomeCells(s.cells) ELSE NoneValue

\* Python truth value of a set-or-None: None and the empty set are false
Truthy(r) == r.some /\ r.cells # {}

\* Sentence.mark_mine without the test "if cell in self.cells"
Sentence_mark_mine_unguarded(s, cell) ==
    [cells |-> s.cells \ {cell}, count |-> s.count - 1]

\* Sentence.mark_mine that removes the cell and forgets the count
Sentence_mark_mine_keeping_count(s, cell) ==
    IF cell \in s.cells
    THEN [cells |-> s.cells \ {cell}, count |-> s.count]
    ELSE s

Sentence_mark_mine(s, cell) ==
    IF cell \in s.cells
    THEN [cells |-> s.cells \ {cell}, count |-> s.count - 1]
    ELSE s

\* Sentence.mark_safe that decrements the count as mark_mine does
Sentence_mark_safe_decrementing(s, cell) ==
    IF cell \in s.cells
    THEN [cells |-> s.cells \ {cell}, count |-> s.count - 1]
    ELSE s

Sentence_mark_safe(s, cell) ==
    IF cell \in s.cells
    THEN [cells |-> s.cells \ {cell}, count |-> s.count]
    ELSE s

\* ----- class MinesweeperAI: the marks -------------------------------------
SeqRange(q) == { q[k] : k \in 1 .. Len(q) }

\* mark_mine that tells the sentences and forgets self.mines.add(cell)
mark_mine_unrecorded(ag, cell) ==
    [ag EXCEPT !.heap = [id \in DOMAIN ag.heap |->
                            IF id \in SeqRange(ag.know)
                            THEN Sentence_mark_mine(ag.heap[id], cell)
                            ELSE ag.heap[id]]]

\* MinesweeperAI.mark_mine: every Sentence object of self.knowledge is told
mark_mine(ag, cell) ==
    [ag EXCEPT !.mines = @ \cup {cell},
               !.heap = [id \in DOMAIN ag.heap |->
                            IF id \in SeqRange(ag.know)
                            THEN Sentence_mark_mine(ag.heap[id], cell)
                            ELSE ag.heap[id]]]

\* mark_safe that also withdraws the cell from self.mines
mark_safe_unmining(ag, cell) ==
    [ag EXCEPT !.safes = @ \cup {cell},
               !.mines = @ \ {cell},
               !.heap = [id \in DOMAIN ag.heap |->
                            IF id \in SeqRange(ag.know)
                            THEN Sentence_mark_safe(ag.heap[id], cell)
                            ELSE ag.heap[id]]]

\* MinesweeperAI.mark_safe
mark_safe(ag, cell) ==
    [ag EXCEPT !.safes = @ \cup {cell},
               !.heap = [id \in DOMAIN ag.heap |->
                            IF id \in SeqRange(ag.know)
                            THEN Sentence_mark_safe(ag.heap[id], cell)
                            ELSE ag.heap[id]]]

\* "for mine in cells: self.mark_mine(mine)"
RECURSIVE MarkEachMine(_, _)
MarkEachMine(ag, cells) ==
    IF cells = {} THEN ag
    ELSE LET c == CHOOSE x \in cells : TRUE
         IN  MarkEachMine(mark_mine(ag, c), cells \ {c})

\* "for safe in cells: self.mark_safe(safe)"
RECURSIVE MarkEachSafe(_, _)
MarkEachSafe(ag, cells) ==
    IF cells = {} THEN ag
    ELSE LET c == CHOOSE x \in cells : TRUE
         IN  MarkEachSafe(mark_safe(ag, c), cells \ {c})

\* ----- nearby_cells -------------------------------------------------------
\* returns the pair (cells, count)
\* nearby_cells without "if (i, j) in self.mines: count -= 1"
nearby_cells_unadjusted(ag, h, w, cell, count) ==
    [cells |-> { c \in Around(cell) :
                    InBounds(c, h, w) /\ c \notin ag.safes /\ c \notin ag.mines },
     count |-> count]

nearby_cells(ag, h, w, cell, count) ==
    [cells |-> { c \in Around(cell) :
                    InBounds(c, h, w) /\ c \notin ag.safes /\ c \notin ag.mines },
     count |-> count - Cardinality({ c \in Around(cell) : c \in ag.mines })]

\* ----- clean_up -----------------------------------------------------------
\* "sentence not in unique_knowledge": list membership by Sentence.__eq__
InList(heap, s, ids) == \E k \in 1 .. Len(ids) : SentenceEq(heap[ids[k]], s)

RECURSIVE UniqueFrom(_, _, _, _)
UniqueFrom(heap, ids, k, unique_knowledge) ==
    IF k > Len(ids) THEN unique_knowledge
    ELSE UniqueFrom(heap, ids, k + 1,
                    IF InList(heap, heap[ids[k]], unique_knowledge)
                    THEN unique_knowledge
                    ELSE Append(unique_knowledge, ids[k]))

clean_up(ag) == [ag EXCEPT !.know = UniqueFrom(ag.heap, ag.know, 1, <<>>)]

\* ----- remove_knowns ------------------------------------------------------
\* One pass over self.knowledge.  The marks walk self.knowledge, which is
\* still the list being iterated; new_knowledge replaces it at the end.
RECURSIVE RemoveFrom(_, _, _)
RemoveFrom(ag, k, new_knowledge) ==
    IF k > Len(ag.know) THEN [ag EXCEPT !.know = new_knowledge]
    ELSE LET sentence == ag.heap[ag.know[k]]
         IN  IF Truthy(known_mines(sentence))
             THEN RemoveFrom(MarkEachMine(ag, known_mines(sentence).cells),
                             k + 1, new_knowledge)
             ELSE IF Truthy(known_safes(sentence))
             THEN RemoveFrom(MarkEachSafe(ag, known_safes(sentence).cells),
                             k + 1, new_knowledge)
             ELSE RemoveFrom(ag, k + 1, Append(new_knowledge, ag.know[k]))

\* remove_knowns that resolves nothing
remove_knowns_skipped(ag) == ag

remove_knowns(ag) == RemoveFrom(ag, 1, <<>>)

\* ----- make_inferences ----------------------------------------------------
\* a new Sentence object appended to self.knowledge
AppendSentence(ag, s) ==
    [ag EXCEPT !.heap = Append(@, s), !.know = Append(@, Len(ag.heap) + 1)]

\* the values of the Sentence objects of self.knowledge, in list order
Values(ag) == [k \in 1 .. Len(ag.know) |-> ag.heap[ag.know[k]]]

\* the first branch with equal counts taken for "all mines"
InferSupersetMining(ag, sentence, new_sentence) ==
    LET set_difference == sentence.cells \ new_sentence.cells
    IN  IF set_difference = {} THEN ag
        ELSE IF sentence.count = new_sentence.count
        THEN MarkEachMine(ag, set_difference)
        ELSE IF Cardinality(set_difference) = sentence.count - new_sentence.count
        THEN MarkEachSafe(ag, set_difference)
        ELSE AppendSentence(ag, Sentence(set_difference,
                                         sentence.count - new_sentence.count))

\* the first branch with the mine test "len(set_difference) == sentence.count"
InferSupersetUnsubtracted(ag, sentence, new_sentence) ==
    LET set_difference == sentence.cells \ new_sentence.cells
    IN  IF set_difference = {} THEN ag
        ELSE IF sentence.count = new_sentence.count
        THEN MarkEachSafe(ag, set_difference)
        ELSE IF Cardinality(set_difference) = sentence.count
        THEN MarkEachMine(ag, set_difference)
        ELSE AppendSentence(ag, Sentence(set_difference,
                                         sentence.count - new_sentence.count))

\* first branch of the loop body: sentence.cells is a superset of new_sentence.cells
InferSuperset(ag, sentence, new_sentence) ==
    LET set_difference == sentence.cells \ new_sentence.cells
    IN  IF set_difference = {} THEN ag
        ELSE IF sentence.count = new_sentence.count
        THEN MarkEachSafe(ag, set_difference)
        ELSE IF Cardinality(set_difference) = sentence.count - new_sentence.count
        THEN MarkEachMine(ag, set_difference)
        ELSE AppendSentence(ag, Sentence(set_difference,
                                         sentence.count - new_sentence.count))

\* second branch: new_sentence.cells is a superset of sentence.cells; the code
\* takes the difference sentence.cells - new_sentence.cells here too
InferSubset(ag, sentence, new_sentence) ==
    LET set_difference == sentence.cells \ new_sentence.cells
    IN  IF set_difference = {} THEN ag
        ELSE IF sentence.count = new_sentence.count
        THEN MarkEachSafe(ag, set_difference)
        ELSE IF Cardinality(set_difference) = new_sentence.count - sentence.count
        THEN MarkEachMine(ag, set_difference)
        ELSE AppendSentence(ag, Sentence(set_difference,
                                         new_sentence.count - sentence.count))

\* one iteration of "for sentence in self.knowledge", on the object `id`
InferStep(ag, id, new_sentence) ==
    LET a == clean_up(ag)
        sentence == a.heap[id]
    IN  IF new_sentence.cells \subseteq sentence.cells
        THEN InferSuperset(a, sentence, new_sentence)
        ELSE IF sentence.cells \subseteq new_sentence.cells
        THEN InferSubset(a, sentence, new_sentence)
        ELSE a

\* what one iteration did, for the record: the sentence compared (as it was
\* when compared, after the clean_up of line 272), and self.knowledge,
\* self.safes and self.mines before the comparison (agent a) and after it
\* (agent b)
StepRecord(a, b, id, new_sentence) ==
    [id |-> id,
     sentence |-> a.heap[id],
     new_sentence |-> new_sentence,
     before |-> Values(a),
     after |-> Values(b),
     safes_before |-> a.safes,
     safes_after |-> b.safes,
     mines_before |-> a.mines,
     mines_after |-> b.mines]

\* the loop: `list` is the list object the for statement iterates, which
\* clean_up never changes (it rebinds self.knowledge to a new list).
\* The result is the agent after the loop and the record of the iterations.
RECURSIVE InferFrom(_, _, _, _, _)
InferFrom(ag, list, k, new_sentence, steps) ==
    IF k > Len(list) THEN [ag |-> ag, steps |-> steps]
    ELSE LET b == InferStep(ag, list[k], new_sentence)
         IN  InferFrom(b, list, k + 1, new_sentence,
                       Append(steps, StepRecord(clean_up(ag), b, list[k], new_sentence)))

\* make_inferences that goes on to a second pass over self.knowledge as
\* the first pass left it, derived sentences included
make_inferences_twice(ag, new_sentence) ==
    LET first == InferFrom(ag, ag.know, 1, new_sentence, <<>>)
    IN  InferFrom(first.ag, first.ag.know, 1, new_sentence, first.steps)

make_inferences(ag, new_sentence) == InferFrom(ag, ag.know, 1, new_sentence, <<>>)

\* ----- add_knowledge ------------------------------------------------------
\* the agent at the start of a public method: object k is knowledge[k]
Agent(kn, sf, mn) ==
    [heap |-> kn, know |-> [k \in 1 .. Len(kn) |-> k], safes |-> sf, mines |-> mn]

\* the result is the agent when add_knowledge returns, the new sentence as
\* built at line 196 and the record of the make_inferences pass
add_knowledge(ag, h, w, cell, count) ==
    LET marked == mark_safe(ag, cell)
        nc == nearby_cells(marked, h, w, cell, count)
        new_sentence == Sentence(nc.cells, nc.count)
        inferred == make_inferences(marked, new_sentence)
    IN  [ag |-> remove_knowns(clean_up(AppendSentence(inferred.ag, new_sentence))),
         new_sentence |-> new_sentence,
         steps |-> inferred.steps]

\* ----- make_safe_move, make_random_move -----------------------------------
NoMove == <<-1, -1>>

\* make_safe_move without the test "safe_move not in self.moves_made"
SafeMovesWithMovesMade(sf, mv, mn) == { c \in sf : c \notin mn }

\* the cells make_safe_move can return (it returns the first it meets in the
\* iteration order of the set self.safes)
SafeMoves(sf, mv, mn) == { c \in sf : c \notin mv /\ c \notin mn }

\* moves_left_to_play
RandomMoves(mv, mn) ==
    { c \in (0 .. RandomRange - 1) \X (0 .. RandomRange - 1) :
         c \notin mv /\ c \notin mn }

\* ----- the state machine --------------------------------------------------
Init ==
    /\ height \in 1 .. MaxCells
    /\ width \in 1 .. MaxCells
    /\ height * width <= MaxCells
    /\ board \in { b \in SUBSET Grid(height, width) : Cardinality(b) <= MaxMines }
    /\ moves_made = {}
    /\ mines = {}
    /\ safes = {}
    /\ knowledge = <<>>
    /\ op = [name |-> "init"]
    /\ ret = NoMove
    /\ trace = <<>>
    /\ ncalls = 0

\* the agent on the square board
InitDeep ==
    /\ height = DeepSide
    /\ width = DeepSide
    /\ board \in { b \in SUBSET Grid(height, width) : Cardinality(b) <= MaxMines }
    /\ moves_made = {}
    /\ mines = {}
    /\ safes = {}
    /\ knowledge = <<>>
    /\ op = [name |-> "init"]
    /\ ret = NoMove
    /\ trace = <<>>
    /\ ncalls = 0

\* the board reveals a cell that is no mine and reports its true count
Reveal(cell) ==
    /\ cell \in Grid(height, width) \ board
    /\ \E res \in { add_knowledge(Agent(knowledge, safes, mines), height, width, cell,
                                   nearby_mines(cell, height, width, board)) } :
           /\ moves_made' = moves_made \cup {cell}
           /\ safes' = res.ag.safes
           /\ mines' = res.ag.mines
           /\ knowledge' = Values(res.ag)
           /\ trace' = res.steps
           /\ op' = [name |-> "add_knowledge", cell |-> cell,
                      count |-> nearby_mines(cell, height, width, board),
                      new_sentence |-> res.new_sentence]
    /\ ret' = NoMove
    /\ ncalls' = ncalls + 1
    /\ UNCHANGED <<height, width, board>>

AddKnowledge(cell) == ncalls < MaxCalls /\ Reveal(cell)

\* the same call in the longer games on the square board
AddKnowledgeDeep(cell) == ncalls < DeepCalls /\ Reveal(cell)

MakeSafeMove ==
    /\ ncalls < MaxCalls
    /\ IF SafeMoves(safes, moves_made, mines) = {}
       THEN ret' = NoMove
       ELSE ret' \in SafeMoves(safes, moves_made, mines)
    /\ op' = [name |-> "make_safe_move"]
    /\ ncalls' = ncalls + 1
    /\ UNCHANGED <<height, width, board, moves_made, mines, safes, knowledge,
                   trace>>

MakeRandomMove ==
    /\ ncalls < MaxCalls
    /\ IF RandomMoves(moves_made, mines) = {}
       THEN ret' = NoMove
       ELSE ret' \in RandomMoves(moves_made, mines)
    /\ op' = [name |-> "make_random_move"]
    /\ ncalls' = ncalls + 1
    /\ UNCHANGED <<height, width, board, moves_made, mines, safes, knowledge,
                   trace>>

\* a caller marks a cell directly
MarkSafe(cell) ==
    /\ ncalls < MaxCalls
    /\ LET res == mark_safe(Agent(knowledge, safes, mines), cell)
       IN  /\ safes' = res.safes
           /\ mines' = res.mines
           /\ knowledge' = Values(res)
    /\ op' = [name |-> "mark_safe", cell |-> cell]
    /\ ret' = NoMove
    /\ ncalls' = ncalls + 1
    /\ UNCHANGED <<height, width, board, moves_made, trace>>

MarkMine(cell) ==
    /\ ncalls < MaxCalls
    /\ LET res == mark_mine(Agent(knowledge, safes, mines), cell)
       IN  /\ safes' = res.safes
           /\ mines' = res.mines
           /\ knowledge' = Values(res)
    /\ op' = [name |-> "mark_mine", cell |-> cell]
    /\ ret' = NoMove
    /\ ncalls' = ncalls + 1
    /\ UNCHANGED <<height, width, board, moves_made, trace>>

\* the game: truthful observations and requests for a safe move
Next ==
    \/ \E cell \in Grid(height, width) : AddKnowledge(cell)
    \/ MakeSafeMove

Spec == Init /\ [][Next]_vars

\* the game, with requests for a random move
NextRandom ==
    \/ \E cell \in Grid(height, width) : AddKnowledge(cell)
    \/ MakeRandomMove

SpecRandom == Init /\ [][NextRandom]_vars

\* the public interface: a caller may also mark any cell of the grid
NextApi ==
    \/ \E cell \in Grid(height, width) : AddKnowledge(cell)
    \/ \E cell \in Grid(height, width) : MarkSafe(cell)
    \/ \E cell \in Grid(height, width) : MarkMine(cell)

SpecApi == Init /\ [][NextApi]_vars

\* longer games on the square board: truthful observations only
NextDeep == \E cell \in Grid(height, width) : AddKnowledgeDeep(cell)

SpecDeep == InitDeep /\ [][NextDeep]_vars

\* ----- the claims ---------------------------------------------------------
Returned(name) == op.name = name

Sentences == { knowledge[k] : k \in 1 .. Len(knowledge) }

\* C1: with truthful observations, every sentence of knowledge has
\* 0 <= count <= |cells| each time add_knowledge returns.
CountWithinCells ==
    \A s \in Sentences : 0 <= s.count /\ s.count <= Cardinality(s.cells)

\* a sentence that lost a mine to a mark and is still undecided is in knowledge
CountWithinCellsWitness ==
    /\ Returned("add_knowledge")
    /\ mines # {}
    /\ \E s \in Sentences : 0 < s.count /\ s.count < Cardinality(s.cells)

\* C2: with truthful observations no cell is both in safes and in mines.
SafesMinesDisjoint == safes \cap mines = {}

SafesMinesDisjointWitness ==
    /\ Returned("add_knowledge")
    /\ mines # {}
    /\ safes \ moves_made # {}

\* C3: when add_knowledge returns, no sentence with a non-empty cell set
\* and count = 0 or count = |cells| remains in knowledge.
Resolved(s) ==
    s.cells # {} /\ (s.count = 0 \/ s.count = Cardinality(s.cells))

NoResolvedSentenceLeft ==
    Returned("add_knowledge") => \A s \in Sentences : ~Resolved(s)

\* C4: after add_knowledge completes, no two sentences of knowledge are
\* structurally equal.
NoDuplicateSentences ==
    Returned("add_knowledge") =>
        \A k, l \in 1 .. Len(knowledge) :
            k # l => ~SentenceEq(knowledge[k], knowledge[l])

\* the comparisons of the last make_inferences pass
Steps == { trace[k] : k \in 1 .. Len(trace) }

\* what the subset rule asks of one comparison, given the difference of the
\* cell sets and of the counts: all safe, all mines, or a derived sentence
\* appended and nothing marked
RuleApplied(step, diff, diffCount) ==
    IF diffCount = 0 THEN diff \subseteq step.safes_after
    ELSE IF Cardinality(diff) = diffCount THEN diff \subseteq step.mines_after
    ELSE /\ step.after = Append(step.before, Sentence(diff, diffCount))
         /\ step.safes_after = step.safes_before
         /\ step.mines_after = step.mines_before

StrictSuperset(a, b) == b \subseteq a /\ a # b

\* C5: when the new sentence's cells are a strict superset of an existing
\* sentence's cells, the cells new.cells - existing.cells are marked safe if
\* the counts are equal, marked mines if there are as many as the difference
\* of the counts, and otherwise a sentence over them is appended.
NewSupersetResolved ==
    \A step \in Steps :
        StrictSuperset(step.new_sentence.cells, step.sentence.cells) =>
            RuleApplied(step, step.new_sentence.cells \ step.sentence.cells,
                        step.new_sentence.count - step.sentence.count)

\* C6: when an existing sentence's cells are a strict superset of the new
\* sentence's cells, the cells existing.cells - new.cells are in safes if
\* the counts are equal, in mines if there are as many as the difference of
\* the counts, and otherwise a sentence over them is appended to knowledge
\* and no cell is marked for that pair.
ExistingSupersetResolved ==
    \A step \in Steps :
        StrictSuperset(step.sentence.cells, step.new_sentence.cells) =>
            /\ RuleApplied(step, step.sentence.cells \ step.new_sentence.cells,
                           step.sentence.count - step.new_sentence.count)
            /\ (step.sentence.count = step.new_sentence.count =>
                    step.sentence.cells \ step.new_sentence.cells \subseteq safes)
            /\ (/\ step.sentence.count # step.new_sentence.count
                /\ Cardinality(step.sentence.cells \ step.new_sentence.cells)
                       = step.sentence.count - step.new_sentence.count
                => step.sentence.cells \ step.new_sentence.cells \subseteq mines)

\* a pass that compared a non-empty new sentence with a strict superset and
\* marked the difference as mines
ExistingSupersetResolvedWitness ==
    \E step \in Steps :
        /\ step.new_sentence.cells # {}
        /\ StrictSuperset(step.sentence.cells, step.new_sentence.cells)
        /\ step.mines_after # step.mines_before

\* C7: make_random_move returns a cell of the height x width grid that is
\* neither in moves_made nor in mines, and none exactly when the grid has
\* no such cell.
RandomMoveInGrid ==
    Returned("make_random_move") =>
        /\ ret # NoMove =>
              /\ InBounds(ret, height, width)
              /\ ret \notin moves_made
              /\ ret \notin mines
        /\ ret = NoMove <=>
              ~ \E c \in Grid(height, width) : c \notin moves_made /\ c \notin mines

\* C8: make_safe_move returns a cell of safes that is neither in moves_made
\* nor in mines, none exactly when there is no such cell, and changes no
\* state of the agent.
SafeMoveStep ==
    op'.name = "make_safe_move" =>
        /\ ret' # NoMove =>
              ret' \in safes /\ ret' \notin moves_made /\ ret' \notin mines
        /\ ret' = NoMove <=>
              ~ \E c \in safes : c \notin moves_made /\ c \notin mines
        /\ UNCHANGED <<safes, mines, moves_made, knowledge, height, width>>

SafeMoveCorrect == [][SafeMoveStep]_vars

\* make_safe_move returned a cell while a revealed cell was in safes too
SafeMoveCorrectWitness ==
    /\ Returned("make_safe_move")
    /\ ret # NoMove
    /\ safes \cap moves_made # {}

\* C9: when add_knowledge returns, knowledge holds no sentence with an empty
\* cell set and count 0.
NoDegenerateSentence ==
    Returned("add_knowledge") =>
        \A s \in Sentences : ~(s.cells = {} /\ s.count = 0)

\* C10: every add_knowledge, mark_safe or mark_mine call leaves each of
\* safes, mines and moves_made a superset of what it was.
OnlyGrow ==
    [][/\ safes \subseteq safes'
       /\ mines \subseteq mines'
       /\ moves_made \subseteq moves_made']_vars

\* a direct mark_safe of a cell that was already known as a mine
OnlyGrowWitness ==
    /\ Returned("mark_safe")
    /\ op.cell \in mines
    /\ moves_made # {}

\* C18: when add_knowledge returns, no sentence of knowledge contains a
\* cell that is in safes or in mines.
NoKnownCellInKnowledge ==
    Returned("add_knowledge") =>
        \A s \in Sentences : s.cells \cap (safes \cup mines) = {}

\* the cells of the grid next to a cell
Neighbours(cell) ==
    { c \in Grid(height, width) :
         /\ c # cell
         /\ c[1] - cell[1] \in {-1, 0, 1}
         /\ c[2] - cell[2] \in {-1, 0, 1} }

\* C11: after add_knowledge(cell, 0) with a truthful 0, every in-grid
\* neighbour of cell is in safes, whatever knowledge was held before.
ZeroMakesNeighboursSafe ==
    Returned("add_knowledge") /\ op.count = 0 =>
        Neighbours(op.cell) \subseteq safes

\* a zero was revealed next to cells that were unknown, while other
\* sentences were held
ZeroMakesNeighboursSafeWitness ==
    /\ Returned("add_knowledge")
    /\ op.count = 0
    /\ op.new_sentence.cells # {}
    /\ trace # <<>>
    /\ board # {}

\* C12: after an add_knowledge whose adjusted count equals the number of
\* not-yet-known in-grid neighbours of the cell, that number being at least
\* 1, every one of those neighbours is in mines.
AllMinesMarked ==
    /\ Returned("add_knowledge")
    /\ op.new_sentence.cells # {}
    /\ op.new_sentence.count = Cardinality(op.new_sentence.cells)
    => op.new_sentence.cells \subseteq mines

\* two or more unknown neighbours, all of them mines, found while other
\* sentences were held
AllMinesMarkedWitness ==
    /\ Returned("add_knowledge")
    /\ Cardinality(op.new_sentence.cells) >= 2
    /\ op.new_sentence.count = Cardinality(op.new_sentence.cells)
    /\ trace # <<>>

\* C13: the sentence built by add_knowledge(cell, count) has as cells the
\* in-grid neighbours of cell that are neither in safes (cell itself was
\* just marked safe) nor in mines, and as count the reported count minus
\* the number of neighbours of cell that are in mines.
NewSentenceStep ==
    op'.name = "add_knowledge" =>
        /\ op'.new_sentence.cells =
              { c \in Neighbours(op'.cell) : c \notin safes /\ c \notin mines }
        /\ op'.new_sentence.count =
              op'.count - Cardinality(Neighbours(op'.cell) \cap mines)

NewSentenceBuilt == [][NewSentenceStep]_vars

\* a sentence was built next to a known mine and a known safe cell
NewSentenceBuiltWitness ==
    /\ Returned("add_knowledge")
    /\ op.new_sentence.count < op.count
    /\ Cardinality(op.new_sentence.cells) + (op.count - op.new_sentence.count)
          < Cardinality(Neighbours(op.cell))

\* C14: in any reachable state, mark_safe(c) called twice in a row, or
\* mark_mine(c) called twice in a row, leaves safes, mines and every
\* sentence as the first call left them (moves_made is touched by neither).
MarkTwice(mark(_, _), cell) ==
    LET once  == mark(Agent(knowledge, safes, mines), cell)
        twice == mark(once, cell)
    IN  /\ twice.safes = once.safes
        /\ twice.mines = once.mines
        /\ Values(twice) = Values(once)

MarksIdempotent ==
    \A cell \in Grid(height, width) :
        MarkTwice(mark_safe, cell) /\ MarkTwice(mark_mine, cell)

\* a mark has been applied and a sentence still holds a cell to mark
MarksIdempotentWitness ==
    /\ Returned("mark_mine")
    /\ \E s \in Sentences : Cardinality(s.cells) >= 2 /\ s.count >= 1

\* C15: a sentence of knowledge with count = 0 has all its cells in safes,
\* and one with count = |cells| has all its cells in mines, once the game
\* has proceeded by one more truthful add_knowledge call.  The same is
\* asked of the sentences that were in knowledge at any point of the
\* inference pass of that call and of the sentence the call built.
SeenDuring(steps) ==
    UNION { { s.after[k] : k \in 1 .. Len(s.after) } :
              s \in { steps[j] : j \in 1 .. Len(steps) } }

ResolvedIn(s, sf, mn) ==
    s.cells # {} =>
        /\ s.count = 0 => s.cells \subseteq sf
        /\ s.count = Cardinality(s.cells) => s.cells \subseteq mn

ResolutionStep ==
    op'.name = "add_knowledge" =>
        \A s \in Sentences \cup SeenDuring(trace') \cup {op'.new_sentence} :
            ResolvedIn(s, safes', mines')

ResolvedByNextCall == [][ResolutionStep]_vars

\* the call started with an all-safe sentence that earlier calls had left
\* in knowledge, and its cells are in safes now
ResolvedByNextCallWitness ==
    /\ Returned("add_knowledge")
    /\ trace # <<>>
    /\ \E k \in 1 .. Len(trace[1].before) :
          LET s == trace[1].before[k]
          IN  s.cells # {} /\ s.count = 0 /\ s.cells \subseteq safes

\* C16: after any sequence of add_knowledge calls with truthful
\* observations every cell of mines is a mine of the board, no cell of
\* safes is, and make_safe_move never returns a mined cell.
SoundDeductions ==
    /\ mines \subseteq board
    /\ safes \cap board = {}
    /\ Returned("make_safe_move") /\ ret # NoMove => ret \notin board

\* a safe move is returned by an agent that has deduced a mine and a safe
\* cell it was never shown
SoundDeductionsWitness ==
    /\ Returned("make_safe_move") /\ ret # NoMove
    /\ mines # {}
    /\ Cardinality(safes \ moves_made) >= 2

\* C17: after any sequence of add_knowledge calls with truthful
\* observations, the number of board mines among the cells of each sentence
\* of knowledge is that sentence's count.
SentencesTrueOfBoard ==
    \A s \in Sentences : Cardinality(s.cells \cap board) = s.count

\* knowledge holds a sentence derived by the subset rule and then shrunk
\* by a mark: it is not the sentence of the last call and it is smaller
\* than the difference it was derived from
SentencesTrueOfBoardWitness ==
    /\ Returned("add_knowledge")
    /\ \E st \in Steps :
          LET diff == st.sentence.cells \ st.new_sentence.cells
              derived == Sentence(diff, st.sentence.count - st.new_sentence.count)
          IN  /\ Len(st.after) = Len(st.before) + 1
              /\ st.after[Len(st.after)] = derived
              /\ \E s \in Sentences :
                    /\ s.cells # {}
                    /\ s.cells \subseteq diff
                    /\ s.cells # diff

\* C19: the inference pass of add_knowledge makes exactly one comparison
\* for each sentence that was in knowledge when the pass started, in list
\* order, each against the sentence the call built, and none against a
\* sentence derived and appended during the pass; so the pass ends.
InferencePassStep ==
    op'.name = "add_knowledge" =>
        /\ Len(trace') = Len(knowledge)
        /\ \A k \in 1 .. Len(trace') :
              /\ trace'[k].id = k
              /\ trace'[k].sentence.cells \subseteq knowledge[k].cells
              /\ trace'[k].new_sentence = op'.new_sentence

InferencePassBounded == [][InferencePassStep]_vars

\* a comparison appended a derived sentence and the pass went on to a
\* later comparison without ever comparing the derived one
InferencePassBoundedWitness ==
    /\ Returned("add_knowledge")
    /\ \E k \in 1 .. Len(trace) - 1 :
          Len(trace[k].after) = Len(trace[k].before) + 1

=============================================================================
